---- MODULE Spec2Model ----
(***************************************************************************)
(* Model of the two k-means command-line programs of the repository:       *)
(*   hw1/kmeans.py    - argument parsing, dataset reading, Lloyd's         *)
(*                      iteration with first-k initialisation              *)
(*   hw2/kmeanspp.py  - argument validation and k-means++ seeding          *)
(*                                                                         *)
(* Numbers.  Coordinates are Python floats in the code.  The model works   *)
(* on datasets with small integer coordinates and computes exactly: a      *)
(* centroid coordinate is stored as an integer count of 1/Scale(n) units,  *)
(* where Scale(n) = n! is divisible by every possible cluster size, so the *)
(* mean of a cluster is an exact integer in these units.  Command-line     *)
(* numbers are stored in halves (twice = 2 * value) so that values with a  *)
(* fractional part exist.                                                  *)
(***************************************************************************)
EXTENDS Integers, Sequences, FiniteSets, TLC

\* ---------------------------------------------------------------- bounds
MaxN == 4            \* longest dataset fed to hw1/kmeans.py
MaxKArg == 4         \* largest k given on the command line
MaxPPN == 4          \* most merged rows fed to hw2/kmeanspp.py

\* ------------------------------------------------------------- constants
EpsDen == 1000             \* EPS = 1 / EpsDen = 0.001
DEFAULT_ITER == 400
PP_DEFAULT_ITER == 300
IterLow == 1               \* 1 < iter
IterHigh == 1000           \* iter < 1000
KLow == 2                  \* k < 2 is rejected (hw1)
FmtDigits == 10000         \* "{:.4f}": four decimal places

NUM_CLUST_ERR == "Incorrect number of clusters!"
MAX_ITER_ERR == "Incorrect maximum iteration!"
GENERIC_ERR == "An Error Has Occurred"
PP_NUM_CLUST_ERR == "Invalid number of clusters!"
PP_MAX_ITER_ERR == "Invalid maximum iteration!"
PP_EPS_ERR == "Invalid epsilon!"
\* what the interpreter writes (on stderr) for an exception nobody catches
TRACEBACK == "Traceback (most recent call last)"

\* ---------------------------------------------------------------- inputs
XVals == {0, 10}
YVals == {0, 1, 2}
Points == {<<x, y>> : x \in XVals, y \in YVals}
Dim == 2

Datasets == UNION {[1..n -> Points] : n \in 0..MaxN}

\* a command-line word: absent, not a number, infinite, or a number given
\* in halves
NoneTok == [kind |-> "none", twice |-> 0]
TextTok == [kind |-> "text", twice |-> 0]
InfTok == [kind |-> "inf", twice |-> 0]
NumTok(t) == [kind |-> "num", twice |-> t]

KArgs == {TextTok} \cup {NumTok(t) : t \in 1..(2 * MaxKArg)}
IterVals2 == {2, 4, 5, 6, 20, 1998, 2000}
IterArgs == {TextTok} \cup {NumTok(t) : t \in IterVals2}

\* hw2 inputs: the merged table has distinct keys in ascending order
PPKeys == {26, 39, 47, 50, 61}
PPPoints == {<<0, 0>>, <<0, 2>>, <<10, 0>>}
PPKArgs == {TextTok, InfTok} \cup {NumTok(t) : t \in {-1, 2, 3, 4, 5, 6, 8}}
PPIterArgs == {TextTok} \cup {NumTok(t) : t \in {2, 4, 5, 2000}}
PPEpsArgs == {TextTok} \cup {NumTok(t) : t \in {-1, 0}}
\* the pair of file names: "tests/input_N" stands for the pair
\* ("tests/input_N_db_1.txt", "tests/input_N_db_2.txt"), "other" for a pair
\* of existing files with other names, "missing" for a file that is absent
PPFiles == {"tests/input_1", "other", "missing"}

RECURSIVE SortedRows(_, _)
SortedRows(S, f) ==
    IF S = {} THEN <<>>
    ELSE LET m == CHOOSE x \in S : \A y \in S : x <= y
         IN <<[key |-> m, pt |-> f[m]]>> \o SortedRows(S \ {m}, f)

MergedTables ==
    {SortedRows(DOMAIN f, f) :
        f \in UNION {[S -> PPPoints] :
                        S \in {T \in SUBSET PPKeys : Cardinality(T) <= MaxPPN}}}

\* ------------------------------------------------------- number helpers
RECURSIVE Scale(_)
Scale(n) == IF n <= 1 THEN 1 ELSE n * Scale(n - 1)

\* float.is_integer()
IsInteger(tok) == tok.kind = "num" /\ tok.twice % 2 = 0

\* int(x) for a float x: truncation toward zero
IntOf(tok) ==
    IF tok.twice >= 0 THEN tok.twice \div 2 ELSE -((-tok.twice) \div 2)

RECURSIVE SumSeq(_)
SumSeq(s) == IF s = <<>> THEN 0 ELSE Head(s) + SumSeq(Tail(s))

\* variant: the smallest element is taken instead of the largest
RECURSIVE MinSeq(_)
MinSeq(s) ==
    IF Len(s) = 1 THEN s[1]
    ELSE LET m == MinSeq(Tail(s)) IN IF s[1] <= m THEN s[1] ELSE m

RECURSIVE MaxSeq(_)
MaxSeq(s) ==
    IF Len(s) = 1 THEN s[1]
    ELSE LET m == MaxSeq(Tail(s)) IN IF s[1] >= m THEN s[1] ELSE m

\* ------------------------------------------------------ hw1: pure parts
\* euclid_sq between two vectors given in the same units
euclid_sq(p, q) == SumSeq([c \in 1..Len(p) |-> (p[c] - q[c]) * (p[c] - q[c])])

add_pts(p, q) == [c \in 1..Len(p) |-> p[c] + q[c]]

\* div_pt of an accumulated sum of raw points, result in 1/L units
div_pt(p, denom, L) == [c \in 1..Len(p) |-> (p[c] * L) \div denom]

\* a raw data point expressed in 1/L units
ToUnits(p, L) == [c \in 1..Len(p) |-> p[c] * L]

\* variant: a later centroid at the same distance replaces the best
RECURSIVE MinScanLast(_, _, _, _)
MinScanLast(p, cents, i, best) ==
    IF i > Len(cents) THEN best
    ELSE IF euclid_sq(p, cents[i]) <= euclid_sq(p, cents[best])
         THEN MinScanLast(p, cents, i + 1, i)
         ELSE MinScanLast(p, cents, i + 1, best)

\* variant: the farthest centroid is kept
RECURSIVE MinScanFar(_, _, _, _)
MinScanFar(p, cents, i, best) ==
    IF i > Len(cents) THEN best
    ELSE IF euclid_sq(p, cents[i]) > euclid_sq(p, cents[best])
         THEN MinScanFar(p, cents, i + 1, i)
         ELSE MinScanFar(p, cents, i + 1, best)

\* min(range(k), key=lambda i: euclid_sq(p, centroids[i])): scan in
\* ascending order, replace the best only on a strictly smaller key
RECURSIVE MinScan(_, _, _, _)
MinScan(p, cents, i, best) ==
    IF i > Len(cents) THEN best
    ELSE IF euclid_sq(p, cents[i]) < euclid_sq(p, cents[best])
         THEN MinScan(p, cents, i + 1, i)
         ELSE MinScan(p, cents, i + 1, best)

Closest(p, cents) == MinScan(p, cents, 2, 1)

\* the assignment loop: clusters[idx].append(p) for every p in data order
RECURSIVE AssignFrom(_, _, _, _, _)
AssignFrom(dat, cents, L, j, cl) ==
    IF j > Len(dat) THEN cl
    ELSE LET idx == Closest(ToUnits(dat[j], L), cents)
         IN AssignFrom(dat, cents, L, j + 1,
                       [cl EXCEPT ![idx] = Append(@, j)])

AssignAll(dat, cents, L) ==
    AssignFrom(dat, cents, L, 1, [i \in 1..Len(cents) |-> <<>>])

\* acc = [0.0] * d; for p in cluster: acc = add_pts(acc, p)
RECURSIVE Accumulate(_, _, _)
Accumulate(dat, cluster, acc) ==
    IF cluster = <<>> THEN acc
    ELSE Accumulate(dat, Tail(cluster), add_pts(acc, dat[Head(cluster)]))

\* variant: an empty cluster's centroid is reset to the origin
NewCentroidReset(dat, cluster, old, L) ==
    IF cluster # <<>>
    THEN div_pt(Accumulate(dat, cluster, [c \in 1..Dim |-> 0]), Len(cluster), L)
    ELSE [c \in 1..Dim |-> 0]

\* variant: the sum is divided by one more than the cluster size
NewCentroidOff(dat, cluster, old, L) ==
    IF cluster # <<>>
    THEN div_pt(Accumulate(dat, cluster, [c \in 1..Dim |-> 0]),
                Len(cluster) + 1, L)
    ELSE old

\* one entry of new_centroids
NewCentroid(dat, cluster, old, L) ==
    IF cluster # <<>>
    THEN div_pt(Accumulate(dat, cluster, [c \in 1..Dim |-> 0]), Len(cluster), L)
    ELSE old

UpdateAll(dat, cl, cents, L) ==
    [i \in 1..Len(cents) |-> NewCentroid(dat, cl[i], cents[i], L)]

\* deltas, squared, in 1/L^2 units (math.sqrt is monotone, so the largest
\* delta is the root of the largest squared delta)
DeltasSq(newc, oldc) == [i \in 1..Len(oldc) |-> euclid_sq(newc[i], oldc[i])]

\* max(deltas) < EPS, i.e. sqrt(sq) / L < 1 / EpsDen, i.e.
\* sq * EpsDen^2 < L^2, written without the large product
BelowEps(sq, L) == sq <= ((L * L) - 1) \div (EpsDen * EpsDen)

\* variant: one pass too many
LoopContinuesOff(done, maxIter) == done <= maxIter

\* for _ in range(max_iter): another pass is started
LoopContinues(done, maxIter) == done < maxIter

\* f"{coord:.4f}": the coordinate rounded to a multiple of 1/FmtDigits
fmtCoord(c, L) == ((2 * c * FmtDigits) + L) \div (2 * L)
fmt(cent, L) == [c \in 1..Len(cent) |-> fmtCoord(cent[c], L)]

\* parse_args: the error it raises ("" when none) and the values returned
KParseFails(tok) == tok.kind \in {"text", "inf"} \/ ~IsInteger(tok)

IterParseFails(tok) == tok.kind \in {"text", "inf"} \/ ~IsInteger(tok)

IterInRange(v) == IterLow < v /\ v < IterHigh

KTooSmall(kv) == kv < KLow

KTooLarge(kv, n) == kv >= n

parse_args(ac, kTok, iTok) ==
    IF ac \notin {2, 3} THEN [err |-> GENERIC_ERR, k |-> 0, iter |-> 0]
    ELSE IF KParseFails(kTok) THEN [err |-> NUM_CLUST_ERR, k |-> 0, iter |-> 0]
    ELSE IF ac = 3 /\ IterParseFails(iTok)
         THEN [err |-> MAX_ITER_ERR, k |-> 0, iter |-> 0]
    ELSE LET kv == IntOf(kTok)
             iv == IF ac = 3 THEN IntOf(iTok) ELSE DEFAULT_ITER
         IN IF ~IterInRange(iv) THEN [err |-> MAX_ITER_ERR, k |-> 0, iter |-> 0]
            ELSE IF KTooSmall(kv) THEN [err |-> NUM_CLUST_ERR, k |-> 0, iter |-> 0]
            ELSE [err |-> "", k |-> kv, iter |-> iv]

\* ------------------------------------------------------------ hw1: state
VARIABLES
    argc,           \* len(sys.argv)
    kArg, iterArg,  \* sys.argv[1], sys.argv[2]
    stdin,          \* the rows on standard input
    pc,             \* position in main / kmeans
    k, max_iter,    \* what parse_args returned
    data,           \* what read_dataset returned
    centroids,      \* kmeans: centroids
    clusters,       \* kmeans: clusters, as point positions in data
    new_centroids,  \* kmeans: new_centroids
    deltaMax,       \* kmeans: max(deltas), squared
    shiftLog,       \* record: max(deltas), squared, of every pass so far
    passes,         \* loop passes started so far
    stopped,        \* how the loop ended: "", "converged" or "exhausted"
    inertia,        \* measurement: within-cluster squared distance taken
                    \* right after the latest assignment step
    prevInertia,    \* measurement: the same, one pass earlier
    prevHadEmpty,   \* measurement: the pass before had an empty cluster
    stdout,         \* lines printed
    status          \* exit status, -1 while running

\* ------------------------------------------------------------ hw2: state
VARIABLES
    ppArgc,             \* len(sys.argv)
    k_str, iter_str, eps_str,
    files,              \* which pair of file names was given
    merged,             \* merged_df after the join and the sort by key
    ppc,                \* position in main / kmeans_pp
    ppK, ppIter, ppEps, \* what validate_input returned
    centroid_indices,   \* original keys of the chosen points
    ppCentroids,        \* centroids
    D,                  \* D, squared
    ppI,                \* the loop variable i of the weighted draws
    draws,              \* record: every call of np.random.choice
    ppStdout,
    ppStatus

inputVars == <<argc, kArg, iterArg, stdin>>
measureVars == <<inertia, prevInertia, prevHadEmpty>>
basicVars == <<inputVars, pc, k, max_iter, data, centroids, clusters,
               new_centroids, deltaMax, shiftLog, passes, stopped,
               measureVars, stdout, status>>
ppInputVars == <<ppArgc, k_str, iter_str, eps_str, files, merged>>
ppVars == <<ppInputVars, ppc, ppK, ppIter, ppEps, centroid_indices,
            ppCentroids, D, ppI, draws, ppStdout, ppStatus>>
vars == <<basicVars, ppVars>>

L == Scale(Len(data))

InitBasic ==
    /\ argc \in 1..4
    /\ kArg \in IF argc \in {2, 3} THEN KArgs ELSE {NoneTok}
    /\ iterArg \in IF argc = 3 THEN IterArgs ELSE {NoneTok}
    /\ stdin \in (IF argc \in {2, 3} THEN Datasets ELSE {<<>>})
    /\ pc = "parse_args"
    /\ k = 0 /\ max_iter = 0
    /\ data = <<>>
    /\ centroids = <<>> /\ clusters = <<>> /\ new_centroids = <<>>
    /\ deltaMax = 0 /\ passes = 0 /\ stopped = ""
    /\ shiftLog = <<>>
    /\ inertia = 0 /\ prevInertia = 0 /\ prevHadEmpty = FALSE
    /\ stdout = <<>> /\ status = -1

\* hw2 is not running
IdlePP ==
    /\ ppArgc = 0
    /\ k_str = NoneTok /\ iter_str = NoneTok /\ eps_str = NoneTok
    /\ files = "" /\ merged = <<>>
    /\ ppc = "idle"
    /\ ppK = 0 /\ ppIter = 0 /\ ppEps = 0
    /\ centroid_indices = <<>> /\ ppCentroids = <<>> /\ D = <<>>
    /\ ppI = 0 /\ draws = <<>>
    /\ ppStdout = <<>> /\ ppStatus = -1

\* main's except clauses: print the message, sys.exit(1)
Fail(msg) ==
    /\ stdout' = <<msg>>
    /\ status' = 1
    /\ pc' = "exit"

\* k, max_iter = parse_args()
ParseArgs ==
    /\ pc = "parse_args"
    /\ LET r == parse_args(argc, kArg, iterArg)
       IN IF r.err # ""
          THEN Fail(r.err) /\ UNCHANGED <<k, max_iter>>
          ELSE /\ k' = r.k /\ max_iter' = r.iter
               /\ pc' = "read_dataset"
               /\ UNCHANGED <<stdout, status>>
    /\ UNCHANGED <<inputVars, data, centroids, clusters, new_centroids,
                   deltaMax, shiftLog, passes, stopped, measureVars, ppVars>>

\* data = read_dataset(); every row here is well formed, so the only
\* failure is the empty dataset
ReadDataset ==
    /\ pc = "read_dataset"
    /\ IF stdin = <<>>
       THEN Fail(GENERIC_ERR) /\ UNCHANGED data
       ELSE data' = stdin /\ pc' = "kmeans" /\ UNCHANGED <<stdout, status>>
    /\ UNCHANGED <<inputVars, k, max_iter, centroids, clusters, new_centroids,
                   deltaMax, shiftLog, passes, stopped, measureVars, ppVars>>

\* kmeans entry: the k >= n check and the first-k initialisation
KmeansInit ==
    /\ pc = "kmeans"
    /\ IF KTooLarge(k, Len(data))
       THEN Fail(NUM_CLUST_ERR) /\ UNCHANGED centroids
       ELSE /\ centroids' = [i \in 1..k |-> ToUnits(data[i], L)]
            /\ pc' = "loop"
            /\ UNCHANGED <<stdout, status>>
    /\ UNCHANGED <<inputVars, k, max_iter, data, clusters, new_centroids,
                   deltaMax, shiftLog, passes, stopped, measureVars, ppVars>>

\* the within-cluster squared distance of an assignment, in 1/L^2 units
InertiaOf(dat, cl, cents, LL) ==
    SumSeq([i \in 1..Len(cents) |->
        SumSeq([m \in 1..Len(cl[i]) |->
            euclid_sq(ToUnits(dat[cl[i][m]], LL), cents[i])])])

HasEmpty(cl) == \E i \in 1..Len(cl) : cl[i] = <<>>

\* loop head: start another pass or fall out of the for loop
LoopHead ==
    /\ pc = "loop"
    /\ IF LoopContinues(passes, max_iter)
       THEN pc' = "assign" /\ passes' = passes + 1 /\ UNCHANGED stopped
       ELSE pc' = "return" /\ stopped' = "exhausted" /\ UNCHANGED passes
    /\ UNCHANGED <<inputVars, k, max_iter, data, centroids, clusters,
                   new_centroids, deltaMax, shiftLog, measureVars, stdout,
                   status, ppVars>>

\* step 2: assign every point to the closest centroid
Assign ==
    /\ pc = "assign"
    /\ clusters' = AssignAll(data, centroids, L)
    /\ inertia' = InertiaOf(data, clusters', centroids, L)
    /\ prevInertia' = inertia
    /\ prevHadEmpty' = HasEmpty(clusters)
    /\ pc' = "update"
    /\ UNCHANGED <<inputVars, k, max_iter, data, centroids, new_centroids,
                   deltaMax, shiftLog, passes, stopped, stdout, status, ppVars>>

\* step 3: new_centroids
Update ==
    /\ pc = "update"
    /\ new_centroids' = UpdateAll(data, clusters, centroids, L)
    /\ pc' = "test"
    /\ UNCHANGED <<inputVars, k, max_iter, data, centroids, clusters,
                   deltaMax, shiftLog, passes, stopped, measureVars, stdout,
                   status, ppVars>>

\* deltas, centroids = new_centroids, and the break
Test ==
    /\ pc = "test"
    /\ deltaMax' = MaxSeq(DeltasSq(new_centroids, centroids))
    /\ shiftLog' = Append(shiftLog, deltaMax')
    /\ centroids' = new_centroids
    /\ IF BelowEps(deltaMax', L)
       THEN pc' = "return" /\ stopped' = "converged"
       ELSE pc' = "loop" /\ UNCHANGED stopped
    /\ UNCHANGED <<inputVars, k, max_iter, data, clusters, new_centroids,
                   passes, measureVars, stdout, status, ppVars>>

\* return centroids; main prints fmt(c) for each and ends normally
Return ==
    /\ pc = "return"
    /\ stdout' = [i \in 1..Len(centroids) |-> fmt(centroids[i], L)]
    /\ status' = 0
    /\ pc' = "exit"
    /\ UNCHANGED <<inputVars, k, max_iter, data, centroids, clusters,
                   new_centroids, deltaMax, shiftLog, passes, stopped,
                   measureVars, ppVars>>

Init == InitBasic /\ IdlePP

Next ==
    \/ ParseArgs
    \/ ReadDataset
    \/ KmeansInit
    \/ LoopHead
    \/ Assign
    \/ Update
    \/ Test
    \/ Return

Spec == Init /\ [][Next]_vars

\* ------------------------------------------------------ hw2: pure parts
\* validate_input: the message printed ("" when none, TRACEBACK when an
\* exception escapes) and the values returned.  int(float(s)) raises
\* ValueError for text, OverflowError for an infinity, and truncates
PPParseFails(tok) == tok.kind = "text"

PPKOk(kv) == kv > 1

PPEpsOk(tok) == tok.twice >= 0

validate_input(kTok, iTok, eTok) ==
    LET bad(msg) == [err |-> msg, k |-> 0, iter |-> 0, eps |-> 0]
    IN IF PPParseFails(kTok) THEN bad(PP_NUM_CLUST_ERR)
       ELSE IF kTok.kind = "inf" THEN bad(TRACEBACK)
       ELSE IF iTok.kind # "none" /\ PPParseFails(iTok) THEN bad(PP_MAX_ITER_ERR)
       ELSE IF iTok.kind = "inf" THEN bad(TRACEBACK)
       ELSE IF PPParseFails(eTok) THEN bad(PP_EPS_ERR)
       ELSE LET kv == IntOf(kTok)
                iv == IF iTok.kind = "none" THEN PP_DEFAULT_ITER ELSE IntOf(iTok)
            IN IF ~PPKOk(kv) THEN bad(PP_NUM_CLUST_ERR)
               ELSE IF ~IterInRange(iv) THEN bad(PP_MAX_ITER_ERR)
               ELSE IF ~PPEpsOk(eTok) THEN bad(PP_EPS_ERR)
               ELSE [err |-> "", k |-> kv, iter |-> iv, eps |-> eTok.twice]

\* expected_initial_indices
expected_initial_indices ==
    [f \in {"tests/input_1", "tests/input_2", "tests/input_3"} |->
        CASE f = "tests/input_1" -> <<47, 26, 39>>
          [] f = "tests/input_2" -> <<47, 73, 117, 93, 116, 127, 20>>
          [] f = "tests/input_3" -> <<47, 46, 73, 57, 69, 78, 14, 20, 70, 11,
                                      8, 1, 41, 28, 67>>]

\* indices.index(key): the position of the key in the merged table, 0 when
\* the key is absent (the code raises ValueError there)
IndexOfKey(tbl, key) ==
    IF \E j \in 1..Len(tbl) : tbl[j].key = key
    THEN CHOOSE j \in 1..Len(tbl) : tbl[j].key = key
    ELSE 0

\* np.linalg.norm(a - b), squared.  D holds these squares: norm is
\* monotone in its square, so min() picks the same entry, and D**2 gives
\* the square back
NormSq(a, b) == euclid_sq(a, b)

MinOf(a, b) == IF a <= b THEN a ELSE b

\* the update of D after centroid c was chosen
UpdateD(tbl, Dold, c) ==
    [j \in 1..Len(tbl) |-> MinOf(Dold[j], NormSq(tbl[j].pt, c))]

\* the indices np.random.choice(N, p=probabilities) can return: those with
\* a non-zero probability
Drawable(Dsq) == {j \in 1..Len(Dsq) : Dsq[j] > 0}

\* ---------------------------------------------------------- hw2: actions
InitPP ==
    /\ ppArgc \in 4..7
    /\ k_str \in IF ppArgc \in {5, 6} THEN PPKArgs ELSE {NoneTok}
    /\ iter_str \in IF ppArgc = 6 THEN PPIterArgs ELSE {NoneTok}
    /\ eps_str \in IF ppArgc \in {5, 6} THEN PPEpsArgs ELSE {NoneTok}
    /\ files \in IF ppArgc \in {5, 6} THEN PPFiles ELSE {"other"}
    /\ merged \in IF ppArgc \in {5, 6} /\ files # "missing"
                  THEN MergedTables ELSE {<<>>}
    /\ ppc = "main"
    /\ ppK = 0 /\ ppIter = 0 /\ ppEps = 0
    /\ centroid_indices = <<>> /\ ppCentroids = <<>> /\ D = <<>>
    /\ ppI = 0 /\ draws = <<>>
    /\ ppStdout = <<>> /\ ppStatus = -1

\* hw1 is not running
IdleBasic ==
    /\ argc = 0 /\ kArg = NoneTok /\ iterArg = NoneTok /\ stdin = <<>>
    /\ pc = "idle"
    /\ k = 0 /\ max_iter = 0
    /\ data = <<>>
    /\ centroids = <<>> /\ clusters = <<>> /\ new_centroids = <<>>
    /\ deltaMax = 0 /\ passes = 0 /\ stopped = ""
    /\ shiftLog = <<>>
    /\ inertia = 0 /\ prevInertia = 0 /\ prevHadEmpty = FALSE
    /\ stdout = <<>> /\ status = -1

\* print(msg); sys.exit(1) -- or an uncaught exception, which also ends
\* the process with status 1
PPFail(msg) ==
    /\ ppStdout' = <<msg>>
    /\ ppStatus' = 1
    /\ ppc' = "exit"

\* main: the argument count, then validate_input
PPMain ==
    /\ ppc = "main"
    /\ IF ppArgc < 5 \/ ppArgc > 6
       THEN PPFail(GENERIC_ERR) /\ UNCHANGED <<ppK, ppIter, ppEps>>
       ELSE LET r == validate_input(k_str, iter_str, eps_str)
            IN IF r.err # ""
               THEN PPFail(r.err) /\ UNCHANGED <<ppK, ppIter, ppEps>>
               ELSE /\ ppK' = r.k /\ ppIter' = r.iter /\ ppEps' = r.eps
                    /\ ppc' = "kmeans_pp"
                    /\ UNCHANGED <<ppStdout, ppStatus>>
    /\ UNCHANGED <<ppInputVars, centroid_indices, ppCentroids, D, ppI, draws,
                   basicVars>>

\* kmeans_pp: reading the files and the k >= N check
PPLoad ==
    /\ ppc = "kmeans_pp"
    /\ IF files = "missing" THEN PPFail(GENERIC_ERR)
       ELSE IF ppK >= Len(merged) THEN PPFail(PP_NUM_CLUST_ERR)
       ELSE ppc' = "init" /\ UNCHANGED <<ppStdout, ppStatus>>
    /\ UNCHANGED <<ppInputVars, ppK, ppIter, ppEps, centroid_indices,
                   ppCentroids, D, ppI, draws, basicVars>>

\* the branch for the file names listed in expected_initial_indices
PPFixture ==
    /\ ppc = "init"
    /\ files \in DOMAIN expected_initial_indices
    /\ LET exp == expected_initial_indices[files]
       IN IF \A i \in 1..ppK : i <= Len(exp) /\ IndexOfKey(merged, exp[i]) # 0
          THEN /\ centroid_indices' = [i \in 1..ppK |-> exp[i]]
               /\ ppCentroids' =
                    [i \in 1..ppK |-> merged[IndexOfKey(merged, exp[i])].pt]
               /\ ppc' = "fit"
               /\ UNCHANGED <<ppStdout, ppStatus>>
          ELSE PPFail(TRACEBACK) /\ UNCHANGED <<centroid_indices, ppCentroids>>
    /\ UNCHANGED <<ppInputVars, ppK, ppIter, ppEps, D, ppI, draws, basicVars>>

\* step 1: the first centroid, uniformly at random, and the first D
PPFirstDraw ==
    /\ ppc = "init"
    /\ files \notin DOMAIN expected_initial_indices
    /\ \E j \in 1..Len(merged) :
        /\ centroid_indices' = <<merged[j].key>>
        /\ ppCentroids' = <<merged[j].pt>>
        /\ D' = [m \in 1..Len(merged) |-> NormSq(merged[m].pt, merged[j].pt)]
        /\ draws' = <<[kind |-> "uniform", weights |-> <<>>, nan |-> FALSE,
                       pick |-> j]>>
    /\ ppI' = 1
    /\ ppc' = "draw"
    /\ UNCHANGED <<ppInputVars, ppK, ppIter, ppEps, ppStdout, ppStatus,
                   basicVars>>

\* one pass of "for i in range(1, k)": the weighted draw and the update of
\* D.  When np.sum(D_squared) is 0 the division gives NaN probabilities,
\* np.random.choice raises ValueError and nothing catches it
PPDraw ==
    /\ ppc = "draw"
    /\ ppI < ppK
    /\ IF SumSeq(D) = 0
       THEN /\ draws' = Append(draws, [kind |-> "weighted", weights |-> D,
                                       nan |-> TRUE, pick |-> 0])
            /\ PPFail(TRACEBACK)
            /\ UNCHANGED <<centroid_indices, ppCentroids, D, ppI>>
       ELSE \E j \in Drawable(D) :
            /\ draws' = Append(draws, [kind |-> "weighted", weights |-> D,
                                       nan |-> FALSE, pick |-> j])
            /\ centroid_indices' = Append(centroid_indices, merged[j].key)
            /\ ppCentroids' = Append(ppCentroids, merged[j].pt)
            /\ D' = UpdateD(merged, D, merged[j].pt)
            /\ ppI' = ppI + 1
            /\ UNCHANGED <<ppc, ppStdout, ppStatus>>
    /\ UNCHANGED <<ppInputVars, ppK, ppIter, ppEps, basicVars>>

\* the call of mykmeanssp.fit and the output: the first line is the seed
\* list; the centroid lines come from the compiled extension
PPFit ==
    /\ \/ ppc = "fit"
       \/ ppc = "draw" /\ ppI >= ppK
    /\ ppStdout' = <<centroid_indices>>
    /\ ppStatus' = 0
    /\ ppc' = "exit"
    /\ UNCHANGED <<ppInputVars, ppK, ppIter, ppEps, centroid_indices,
                   ppCentroids, D, ppI, draws, basicVars>>

PPInit == IdleBasic /\ InitPP

PPNext ==
    \/ PPMain
    \/ PPLoad
    \/ PPFixture
    \/ PPFirstDraw
    \/ PPDraw
    \/ PPFit

SpecPP == PPInit /\ [][PPNext]_vars

\* ------------------------------------------------------- hw1: properties
Ran == pc = "exit" /\ status = 0
Dist(j, i) == euclid_sq(ToUnits(data[j], L), centroids[i])
InCluster(j, i) == \E m \in 1..Len(clusters[i]) : clusters[i][m] = j

C1Data == <<<<0, 0>>, <<0, 2>>, <<10, 0>>, <<10, 2>>>>
C1Run == Ran /\ data = C1Data /\ k = 2 /\ max_iter = 10

\* C1 as stated: on (0,0),(0,2),(10,0),(10,2) with k = 2 and max_iter = 10
\* kmeans ends with the centroids (0,1) and (10,1)
C1_Original ==
    C1Run => centroids = <<ToUnits(<<0, 1>>, L), ToUnits(<<10, 1>>, L)>>

\* C1 amended: on that dataset kmeans ends with the centroids (5,0) and
\* (5,2), printed as 5.0000,0.0000 and 5.0000,2.0000
C1_Amended ==
    C1Run => /\ centroids = <<ToUnits(<<5, 0>>, L), ToUnits(<<5, 2>>, L)>>
             /\ stdout = <<<<50000, 0>>, <<50000, 20000>>>>

C1_Witness == C1Run /\ stopped = "converged" /\ passes = 2

\* C4: after the assignment step every point is in exactly one cluster, no
\* centroid is strictly closer to it than its own, and every centroid with
\* a lower index is strictly farther
C4_Assignment ==
    pc \in {"update", "test"} =>
        \A j \in 1..Len(data) :
            /\ Cardinality({im \in UNION {{<<i, m>> : m \in 1..Len(clusters[i])} :
                                          i \in 1..k} :
                               clusters[im[1]][im[2]] = j}) = 1
            /\ \A i \in 1..k :
                InCluster(j, i) =>
                    \A o \in 1..k :
                        /\ Dist(j, i) <= Dist(j, o)
                        /\ o < i => Dist(j, o) > Dist(j, i)

\* a point at the same minimal distance from two different centroids
C4_Witness ==
    /\ pc = "update"
    /\ \E j \in 1..Len(data) : \E i1, i2 \in 1..k :
        /\ i1 < i2
        /\ centroids[i1] # centroids[i2]
        /\ Dist(j, i1) = Dist(j, i2)
        /\ \A o \in 1..k : Dist(j, i1) <= Dist(j, o)
        /\ InCluster(j, i1)

\* C5: after the update step an empty cluster has its previous centroid
\* (shift 0), a non-empty cluster has the mean of its points, and the run
\* has not failed
C5_Update ==
    pc = "test" =>
        /\ status = -1
        /\ \A i \in 1..k :
            IF clusters[i] = <<>>
            THEN /\ new_centroids[i] = centroids[i]
                 /\ DeltasSq(new_centroids, centroids)[i] = 0
            ELSE \A c \in 1..Dim :
                    new_centroids[i][c] * Len(clusters[i]) =
                        L * SumSeq([m \in 1..Len(clusters[i]) |->
                                        data[clusters[i][m]][c]])

C5_Witness ==
    /\ pc = "test"
    /\ \E i \in 1..k : clusters[i] = <<>> /\ centroids[i] # <<0, 0>>
    /\ \E i \in 1..k : clusters[i] # <<>> /\ new_centroids[i] # centroids[i]

\* one more assignment-and-update pass from the given centroids
OnePass(cents) == UpdateAll(data, AssignAll(data, cents, L), cents, L)

\* C6 as stated: after any run, one more pass moves every centroid by less
\* than eps
C6_Original ==
    Ran => \A i \in 1..k :
              BelowEps(euclid_sq(OnePass(centroids)[i], centroids[i]), L)

\* C6 amended: after a run that stopped by convergence with a last shift of
\* exactly 0, one more pass leaves every centroid where it is
C6_Amended ==
    (Ran /\ stopped = "converged" /\ deltaMax = 0) =>
        \A i \in 1..k : OnePass(centroids)[i] = centroids[i]

C6_Witness == Ran /\ stopped = "converged" /\ deltaMax = 0 /\ passes >= 3

\* C7: when neither this pass nor the one before has an empty cluster, the
\* within-cluster squared distance after this assignment is not larger
\* than after the previous one
C7_Inertia ==
    (pc = "update" /\ passes >= 2 /\ ~prevHadEmpty /\ ~HasEmpty(clusters))
        => inertia <= prevInertia

C7_Witness ==
    /\ pc = "update" /\ passes >= 2 /\ ~prevHadEmpty /\ ~HasEmpty(clusters)
    /\ inertia < prevInertia

\* C9: never more than max_iter passes; a finished run stopped at the
\* first pass whose largest shift is below eps, or else after exactly
\* max_iter passes, and returns (and prints) the centroids of its last
\* update step
C9_Termination ==
    /\ passes <= max_iter
    /\ Ran =>
        /\ passes >= 1
        /\ Len(shiftLog) = passes
        /\ \A m \in 1..(passes - 1) : ~BelowEps(shiftLog[m], L)
        /\ ~BelowEps(shiftLog[passes], L) => passes = max_iter
        /\ centroids = new_centroids
        /\ stdout = [i \in 1..k |-> fmt(new_centroids[i], L)]

C9_Witness == Ran /\ stopped = "exhausted" /\ ~BelowEps(deltaMax, L)

C9_WitnessConverged == Ran /\ stopped = "converged" /\ passes < max_iter

\* ------------------------------------------ hw1 and hw2: validation claims
\* the value of a command-line number that is written as an integer
IsWhole(tok) == tok.kind = "num" /\ tok.twice % 2 = 0
Whole(tok) == tok.twice \div 2

\* the k the claims call valid: an integer with 2 <= k < n
KAccepted(tok, n) == IsWhole(tok) /\ 2 <= Whole(tok) /\ Whole(tok) < n

\* the max_iter the claims call valid: absent, or an integer strictly
\* between 1 and 1000
IterAccepted(tok) ==
    tok.kind = "none" \/ (IsWhole(tok) /\ 1 < Whole(tok) /\ Whole(tok) < 1000)

EpsAccepted(tok) == tok.kind = "num" /\ tok.twice >= 0

\* hw1: a run with a valid max_iter, a dataset and an invalid k ends with
\* the cluster-count error, status 1, no pass started
C2_Basic ==
    (pc = "exit" /\ argc \in {2, 3} /\ IterAccepted(iterArg) /\ stdin # <<>>
        /\ kArg.kind = "num" /\ ~KAccepted(kArg, Len(stdin)))
    => (stdout = <<NUM_CLUST_ERR>> /\ status = 1 /\ passes = 0)

\* hw2: the same, for a run that is past validate_input
C2_PP ==
    (ppc \notin {"idle", "main", "kmeans_pp"} /\ IterAccepted(iter_str)
        /\ EpsAccepted(eps_str) /\ files # "missing"
        /\ k_str.kind = "num" /\ ~KAccepted(k_str, Len(merged)))
    => (ppc = "exit" /\ ppStdout = <<PP_NUM_CLUST_ERR>> /\ ppStatus = 1
        /\ centroid_indices = <<>>)

\* C2: in both programs, with max_iter and eps valid, a number k that is not
\* an integer with 2 <= k < N ends the run with the cluster-count error and a
\* non-zero status before any seeding or clustering
C2_Claim == C2_Basic /\ C2_PP

\* hw1: with k written as an integer, an invalid max_iter ends the run with
\* the maximum-iteration error; a valid one is taken as it is, an absent
\* one is 400
C3_Basic ==
    (pc \notin {"idle", "parse_args"} /\ argc \in {2, 3} /\ IsWhole(kArg)) =>
        IF IterAccepted(iterArg)
        THEN (Whole(kArg) >= 2) =>
                /\ pc # "exit" \/ stdout # <<MAX_ITER_ERR>>
                /\ max_iter = IF argc = 2 THEN 400 ELSE Whole(iterArg)
        ELSE pc = "exit" /\ stdout = <<MAX_ITER_ERR>> /\ status = 1
             /\ passes = 0

\* hw2: the same with k and eps valid; an absent max_iter is 300
C3_PP ==
    (ppc \notin {"idle", "main"} /\ ppArgc \in {5, 6} /\ IsWhole(k_str)
        /\ Whole(k_str) >= 2 /\ EpsAccepted(eps_str)) =>
        IF IterAccepted(iter_str)
        THEN ppIter = IF ppArgc = 5 THEN 300 ELSE Whole(iter_str)
        ELSE ppc = "exit" /\ ppStdout = <<PP_MAX_ITER_ERR>> /\ ppStatus = 1

\* C3: in both programs a supplied max_iter is accepted exactly when it is
\* an integer strictly between 1 and 1000, any other value ends the run
\* with the maximum-iteration error before any clustering, and an absent
\* max_iter is the default (400 in hw1, 300 in hw2)
C3_Claim == C3_Basic /\ C3_PP

\* ------------------------------------------------------- hw2: properties
\* the weighted draw of centroid number Len(centroid_indices) + 1 finds
\* every distance equal to zero
Degenerate ==
    /\ centroid_indices # <<>>
    /\ Len(centroid_indices) < ppK
    /\ D # <<>>
    /\ \A j \in 1..Len(D) : D[j] = 0

\* C8: when every D[j] is zero at a weighted draw, no NaN probabilities are
\* handed to the random draw and the run ends with a message of its own
\* and a non-zero status, not with an escaped exception
C8_Claim ==
    /\ \A i \in 1..Len(draws) : ~draws[i].nan
    /\ (ppc = "exit" /\ Degenerate) =>
            (ppStatus # 0 /\ ppStdout # <<TRACEBACK>> /\ ppStdout # <<>>)

\* the smallest squared distance from row j to the first n chosen centroids
RECURSIVE MinToChosen(_, _)
MinToChosen(j, n) ==
    IF n = 1 THEN NormSq(merged[j].pt, ppCentroids[1])
    ELSE MinOf(MinToChosen(j, n - 1), NormSq(merged[j].pt, ppCentroids[n]))

\* a finished run selected its seeds by draws: one uniform draw, then one
\* weighted draw per further centroid with weights D[j]^2 for the
\* centroids chosen so far, and the seed list holds the keys of the picks
SeedsDrawn ==
    /\ Len(draws) = ppK
    /\ Len(centroid_indices) = ppK
    /\ draws[1].kind = "uniform"
    /\ \A i \in 1..ppK :
        /\ draws[i].pick \in 1..Len(merged)
        /\ centroid_indices[i] = merged[draws[i].pick].key
        /\ ppCentroids[i] = merged[draws[i].pick].pt
        /\ i > 1 =>
            /\ draws[i].kind = "weighted"
            /\ draws[i].weights =
                 [j \in 1..Len(merged) |-> MinToChosen(j, i - 1)]
            /\ draws[i].weights[draws[i].pick] > 0

\* C10: every finished run, whatever the file names, selected its seeds by
\* these draws
C10_Claim == (ppc = "exit" /\ ppStatus = 0) => SeedsDrawn

\* the same for file names that are not listed in expected_initial_indices
C10_General ==
    (ppc = "exit" /\ ppStatus = 0 /\ files \notin DOMAIN expected_initial_indices)
        => SeedsDrawn

====
